---- MODULE Spec2Model ----
(***************************************************************************)
(* elev: a setuid privilege-elevation tool (src/src/main.rs).              *)
(*                                                                         *)
(* One invocation of main() is a walk of pc from "check_uid" to "exited"   *)
(* or "replaced"; invocations follow one another and share the credential  *)
(* cache, the clock and the policy file.  main.rs is modelled statement by *)
(* statement.  The modules config, auth and util that main.rs declares     *)
(* lie outside main.rs: Config::load, AuthState, verify_password,          *)
(* switch_user and run_command are modelled from the design document       *)
(* (spec.md 4.1 to 4.5) and are marked as such where they are defined.     *)
(***************************************************************************)
EXTENDS Integers, Sequences, FiniteSets, TLC

(* ------------------------------ bounds -------------------------------- *)

\* The clock runs from 0 to MaxTime (seconds).
MaxTime == 2

(* ------------------------- the system around -------------------------- *)

NoRecord == -1
NoExit == -1

\* The identity database (getpwuid / User::from_name): name, ids, home, shell.
Passwd ==
    [root  |-> [uid |-> 0,    gid |-> 0,    gids |-> {0},       dir |-> "/root",       shell |-> "/bin/sh"],
     alice |-> [uid |-> 1000, gid |-> 1000, gids |-> {10},      dir |-> "/home/alice", shell |-> "/bin/bash"],
     bob   |-> [uid |-> 1001, gid |-> 1001, gids |-> {1001},    dir |-> "/home/bob",   shell |-> "/bin/zsh"]]

\* Real uids an invocation may come from; each has an entry in Passwd.
Uids == {0, 1000, 1001}

\* Names given to -u.
Targets == {"root", "alice"}

\* Every name that can key a cache record or be challenged.
Names == {"root", "alice", "bob"}

\* Group names of a user (util::get_user_groups, an external lookup).
get_user_groups(name) ==
    IF name = "alice" THEN {"wheel"} ELSE {}

\* The password each account holds in the system credential database.
Shadow(name) == "pw-" \o name

\* The inherited environments an invoker may start elev with.
Environs ==
    { [v \in {} |-> ""],
      ("PATH" :> "/tmp/evil") @@ ("HOME" :> "/home/invoker") @@ ("BASH_ENV" :> "/tmp/x.sh") }

\* Command lines: no COMMAND, or one.
Commands == { <<>>, <<"id", "-u">> }

(* ------------------------------- policy ------------------------------- *)

ALL == "ALL"

PolicyA ==
    [timeout |-> 2,
     rules |-> << [subject |-> "alice", targets |-> {ALL},    requires_password |-> FALSE],
                  [subject |-> "bob",   targets |-> {"root"}, requires_password |-> TRUE] >>]

PolicyB ==
    [timeout |-> 1,
     rules |-> << [subject |-> "%wheel", targets |-> {"root"}, requires_password |-> TRUE],
                  [subject |-> "alice",  targets |-> {ALL},    requires_password |-> FALSE] >>]

NoPolicy == [timeout |-> 0, rules |-> << >>]

\* What /etc/elev.conf may hold: a well-formed, root-only policy, or nothing
\* loadable (absent, malformed, writable by others).
PolicyFiles ==
    { [kind |-> "ok", policy |-> PolicyA],
      [kind |-> "ok", policy |-> PolicyB],
      [kind |-> "missing",   policy |-> NoPolicy],
      [kind |-> "insecure",  policy |-> PolicyA] }

\* Config::load(path): the policy, or a ConfigError (spec.md 4.1).
ConfigLoad(file) ==
    IF file.kind = "ok"
    THEN [ok |-> TRUE,  policy |-> file.policy]
    ELSE [ok |-> FALSE, policy |-> NoPolicy]

\* Whether a rule's subject names the invoker or one of the invoker's groups.
SubjectMatches(rule, user, grps) ==
    \/ rule.subject = user
    \/ \E g \in grps : rule.subject = "%" \o g

RuleMatches(rule, user, grps, target) ==
    /\ SubjectMatches(rule, user, grps)
    /\ (target \in rule.targets \/ ALL \in rule.targets)

\* evaluate(policy, invoker, target): the first matching rule decides; no
\* match is a denial (spec.md 4.1).
Evaluate(policy, user, grps, target) ==
    LET hits == { i \in 1..Len(policy.rules) :
                    RuleMatches(policy.rules[i], user, grps, target) }
    IN  IF hits = {}
        THEN [allowed |-> FALSE, requires_password |-> FALSE]
        ELSE LET first == CHOOSE i \in hits : \A j \in hits : i <= j
             IN  [allowed |-> TRUE,
                  requires_password |-> policy.rules[first].requires_password]

(* -------------------------- credential cache -------------------------- *)

\* is_valid(identity, timeout): a record exists, is not from the future and
\* is younger than timeout (spec.md 4.2).
IsValid(c, id, timeout, t) ==
    /\ c[id] # NoRecord
    /\ c[id] <= t
    /\ t - c[id] < timeout

\* record_success(identity): the record is (over)written with the current time.
RecordSuccess(c, id, t) == [c EXCEPT ![id] = t]

\* invalidate(identity): the record is removed; nothing to do when absent.
Invalidate(c, id) == [c EXCEPT ![id] = NoRecord]

(* ------------------------------- state -------------------------------- *)

VARIABLES
    now,            \* the clock
    cache,          \* credential cache: name -> time of last success, or NoRecord
    policyFile,     \* content of /etc/elev.conf
    resetBy,        \* names whose latest invocation cleared a fresh record with -K
    pc,             \* where main() stands
    uid,            \* getuid()
    euid,           \* geteuid() at entry
    args,           \* parsed command line: reset_auth, login, user, command
    environ,        \* the environment elev was started with
    current_user,   \* real_username()
    groups,         \* get_user_groups(&current_user)
    config,         \* the Config main holds
    auth_state,     \* the AuthState main holds
    creds,          \* process credentials: euid, egid, supplementary gids
    obs             \* what the invocation did so far

vars == << now, cache, policyFile, resetBy, pc, uid, euid, args, environ, current_user,
           groups, config, auth_state, creds, obs >>

NoArgs == [reset_auth |-> FALSE, login |-> FALSE, user |-> "root", command |-> << >>]
NoAuth == [username |-> "", timeout |-> 0]
NoCreds == [ruid |-> -1, euid |-> -1, egid |-> -1, gids |-> {}]
NoImage == [prog |-> "", argv |-> << >>, env |-> [v \in {} |-> ""], cwd |-> "",
            euid |-> -1]

\* Nothing done yet.
NoObs ==
    [loads      |-> 0,        \* calls of Config::load
     seen       |-> {},       \* policies those calls returned
     loadFailed |-> FALSE,    \* a call of Config::load returned an error
     lookup     |-> "",       \* what User::from_name gave: some, none, err
     cacheOps   |-> {},       \* <<operation, key>> on the credential cache
     prompts    |-> 0,        \* password prompts shown
     challenged |-> {},       \* accounts whose password was asked for
     cacheValid |-> FALSE,    \* check_timeout() returned true
     authenticated |-> FALSE, \* verify_password() returned true
     evaluated  |-> FALSE,    \* the policy was evaluated
     record0    |-> NoRecord, \* the invoker's cache record when elev started
     t0         |-> 0,        \* the time when elev started
     afterReset |-> FALSE,    \* the invoker's previous invocation was a -K on a fresh record
     syscalls   |-> << >>,    \* identity changes applied, in order
     switched   |-> "none",   \* switch_user: none, ok, err
     execs      |-> 0,        \* exec attempts
     image      |-> NoImage,  \* what was handed to exec
     exit       |-> NoExit,   \* exit status
     stderr     |-> ""]       \* what the user was told

Terminal == {"exited", "replaced"}

Init ==
    /\ now = 0
    /\ cache = [n \in Names |-> NoRecord]
    /\ policyFile \in PolicyFiles
    /\ resetBy = {}
    /\ pc = "idle"
    /\ uid = 0
    /\ euid = 0
    /\ args = NoArgs
    /\ environ = [v \in {} |-> ""]
    /\ current_user = ""
    /\ groups = {}
    /\ config = NoPolicy
    /\ auth_state = NoAuth
    /\ creds = NoCreds
    /\ obs = NoObs

\* exit(code), after telling the user msg.
Exit(code, msg) ==
    /\ pc' = "exited"
    /\ obs' = [obs EXCEPT !.exit = code, !.stderr = msg]

(* ----------------------------- environment ---------------------------- *)

\* Time passes between invocations and while the password prompt waits: the
\* prompt is the only point where an invocation suspends (spec.md 5); its
\* other steps take no time at the clock's grain of one second.
Tick ==
    /\ pc \in {"idle", "verify"}
    /\ now < MaxTime
    /\ now' = now + 1
    /\ UNCHANGED << cache, policyFile, resetBy, pc, uid, euid, args, environ, current_user,
                    groups, config, auth_state, creds, obs >>

\* Another process rewrites the policy file.  The file is read at two places
\* only (main.rs 106 and 169), so a write at any other moment is the same as
\* one before the invocation or one between the two reads.
PolicyFileWrite ==
    /\ pc \in {"idle", "command"}
    /\ \E f \in PolicyFiles : f # policyFile /\ policyFile' = f
    /\ UNCHANGED << now, cache, resetBy, pc, uid, euid, args, environ, current_user,
                    groups, config, auth_state, creds, obs >>

(* --------------------- switch_user and run_command -------------------- *)

\* The identity record of a name, when the database has one.
Known(name) == name \in DOMAIN Passwd

\* What may go wrong inside switch_user: nothing, the lookup of the target, or
\* one of the three identity changes.
Faults == {"none", "lookup", "setgroups", "setgid", "setuid"}

\* SwitchSteps with the user id changed first.
SwitchStepsUidFirst == << "setuid", "setgroups", "setgid" >>

\* PrivilegeSwitcher.commit: the order of the identity changes (spec.md 4.4).
SwitchSteps == << "setgroups", "setgid", "setuid" >>

\* One identity change applied to the process credentials.
ApplyStep(c, step, id) ==
    CASE step = "setgroups" -> [c EXCEPT !.gids = id.gids]
      [] step = "setgid"    -> [c EXCEPT !.egid = id.gid]
      [] step = "setuid"    -> [c EXCEPT !.ruid = id.uid, !.euid = id.uid]

\* The kernel lets only a privileged process change its groups or take an
\* arbitrary user id.
Permitted(c, step) == c.euid = 0

RECURSIVE RunSteps(_, _, _, _, _)
RunSteps(c, done, steps, id, fault) ==
    IF steps = << >>
    THEN [creds |-> c, syscalls |-> done, ok |-> TRUE]
    ELSE LET s == Head(steps)
         IN  IF s = fault \/ ~Permitted(c, s)
             THEN [creds |-> c, syscalls |-> done, ok |-> FALSE]
             ELSE RunSteps(ApplyStep(c, s, id), Append(done, s), Tail(steps), id, fault)

\* util::switch_user(target): resolve the target, then the three changes in
\* order; the first failure ends it with an error (spec.md 4.4).
switch_user(c, target, fault) ==
    IF ~Known(target) \/ fault = "lookup"
    THEN [creds |-> c, syscalls |-> << >>, ok |-> FALSE]
    ELSE RunSteps(c, << >>, SwitchSteps, Passwd[target], fault)

DefaultPath == "/usr/local/bin:/usr/bin:/bin"
Prompt == "\\u@\\h: \\w\\$ "

\* The empty environment.
NoEnv == [v \in {} |-> ""]

\* CommandExecutor's environment for a command: built from nothing (spec.md 4.5).
FreshEnv(entry, target) ==
    ("HOME" :> entry.dir) @@ ("USER" :> target) @@ ("LOGNAME" :> target)
        @@ ("SHELL" :> entry.shell) @@ ("PATH" :> DefaultPath)

\* How the exec of a program ends: the image is replaced, or exec returns an error.
ExecOutcomes == {"replaced", "NotFound", "PermissionDenied", "Other"}

\* util::run_command(command, args, target, config, auth_state): the policy is
\* evaluated; when it grants the target, the identity is switched and the
\* command exec'd with a fresh environment (spec.md 2, 4.1, 4.4, 4.5).
run_command(c, command, target, policy, user, grps, fault, outcome) ==
    LET d == Evaluate(policy, user, grps, target)
        r == switch_user(c, target, fault)
    IN  IF ~d.allowed
        THEN [creds |-> c, syscalls |-> << >>, switched |-> "none", execs |-> 0,
              image |-> NoImage, result |-> "PermissionDenied"]
        ELSE IF ~r.ok
        THEN [creds |-> r.creds, syscalls |-> r.syscalls, switched |-> "err",
              execs |-> 0, image |-> NoImage, result |-> "Other"]
        ELSE [creds |-> r.creds, syscalls |-> r.syscalls, switched |-> "ok",
              execs |-> 1,
              image |-> [prog |-> Head(command), argv |-> Tail(command),
                         env |-> FreshEnv(Passwd[target], target),
                         cwd |-> "", euid |-> r.creds.euid],
              result |-> outcome]

(* -------------------------------- main -------------------------------- *)

\* getpwuid(uid): the names the database holds for a uid.
NamesOfUid(u) == { n \in DOMAIN Passwd : Passwd[n].uid = u }

\* main.rs 17-33: the name of the real uid, or the uid written out when the
\* database has no entry for it.
real_username(u) ==
    IF NamesOfUid(u) # {}
    THEN CHOOSE n \in NamesOfUid(u) : TRUE
    ELSE ToString(u)

\* A user starts elev: real uid, effective uid (0 when installed setuid-root,
\* the real uid otherwise), command line and environment.
Start ==
    /\ pc = "idle"
    /\ \E u \in Uids, su \in BOOLEAN, k \in BOOLEAN, l \in BOOLEAN,
          t \in Targets, c \in Commands, e \in Environs :
         /\ uid' = u
         /\ euid' = IF su THEN 0 ELSE u
         /\ args' = [reset_auth |-> k, login |-> l, user |-> t, command |-> c]
         /\ environ' = e
         /\ creds' = [ruid |-> u, euid |-> IF su THEN 0 ELSE u, egid |-> u, gids |-> {u}]
         /\ obs' = [NoObs EXCEPT !.record0 = cache[real_username(u)],
                                 !.t0 = now,
                                 !.afterReset = real_username(u) \in resetBy]
         /\ resetBy' = resetBy \ {real_username(u)}
    /\ pc' = "check_uid"
    /\ UNCHANGED << now, cache, policyFile, current_user, groups, config, auth_state >>

\* The process is gone: it exited, or its image was replaced.
Reap ==
    /\ pc \in Terminal
    /\ pc' = "idle"
    /\ uid' = 0
    /\ euid' = 0
    /\ args' = NoArgs
    /\ environ' = NoEnv
    /\ current_user' = ""
    /\ groups' = {}
    /\ config' = NoPolicy
    /\ auth_state' = NoAuth
    /\ creds' = NoCreds
    /\ obs' = NoObs
    /\ UNCHANGED << now, cache, policyFile, resetBy >>

\* CheckUid without the refusal: the real root is let through.
CheckUidSkipped ==
    /\ pc = "check_uid"
    /\ pc' = "check_euid"
    /\ UNCHANGED << now, cache, policyFile, resetBy, uid, euid, args, environ,
                    current_user, groups, config, auth_state, creds, obs >>

\* main.rs 37-43: refuse the real root.
CheckUid ==
    /\ pc = "check_uid"
    /\ IF uid = 0
       THEN Exit(1, "Do not run 'elev' directly as root.")
       ELSE pc' = "check_euid" /\ UNCHANGED obs
    /\ UNCHANGED << now, cache, policyFile, resetBy, uid, euid, args, environ,
                    current_user, groups, config, auth_state, creds >>

\* CheckEuid letting an elev that is not setuid-root go on.
CheckEuidSkipped ==
    /\ pc = "check_euid"
    /\ pc' = "parse"
    /\ UNCHANGED << now, cache, policyFile, resetBy, uid, euid, args, environ,
                    current_user, groups, config, auth_state, creds, obs >>

\* main.rs 45-48: elev must run setuid-root.
CheckEuid ==
    /\ pc = "check_euid"
    /\ IF euid # 0
       THEN Exit(1, "")
       ELSE pc' = "parse" /\ UNCHANGED obs
    /\ UNCHANGED << now, cache, policyFile, resetBy, uid, euid, args, environ,
                    current_user, groups, config, auth_state, creds >>

\* main.rs 50-104: the command line is parsed (COMMAND is required unless -i
\* or -K is given; clap ends the process with status 2 otherwise), then the
\* invoker's name and groups are resolved.
ParseArgs ==
    /\ pc = "parse"
    /\ IF args.command = << >> /\ ~args.login /\ ~args.reset_auth
       THEN /\ Exit(2, "error: the following required arguments were not provided")
            /\ UNCHANGED << current_user, groups >>
       ELSE /\ pc' = "load"
            /\ current_user' = real_username(uid)
            /\ groups' = get_user_groups(real_username(uid))
            /\ UNCHANGED obs
    /\ UNCHANGED << now, cache, policyFile, resetBy, uid, euid, args, environ,
                    config, auth_state, creds >>

\* AuthState::new(config.timeout, current_user, groups, &config).
AuthStateNew(policy, user) == [username |-> user, timeout |-> policy.timeout]

\* LoadConfig going on without a policy when the load has failed.
LoadConfigIgnoresFailure ==
    /\ pc = "load"
    /\ LET r == ConfigLoad(policyFile)
       IN  IF ~r.ok
           THEN /\ pc' = "reset_auth"
                /\ config' = NoPolicy
                /\ auth_state' = AuthStateNew(NoPolicy, current_user)
                /\ obs' = [obs EXCEPT !.loads = @ + 1, !.loadFailed = TRUE]
           ELSE /\ pc' = "reset_auth"
                /\ config' = r.policy
                /\ auth_state' = AuthStateNew(r.policy, current_user)
                /\ obs' = [obs EXCEPT !.loads = @ + 1, !.seen = @ \cup {r.policy}]
    /\ UNCHANGED << now, cache, policyFile, resetBy, uid, euid, args, environ,
                    current_user, groups, creds >>

\* main.rs 106-107: the policy is loaded; a failure panics (status 101).
LoadConfig ==
    /\ pc = "load"
    /\ LET r == ConfigLoad(policyFile)
       IN  IF ~r.ok
           THEN /\ pc' = "exited"
                /\ obs' = [obs EXCEPT !.loads = @ + 1, !.loadFailed = TRUE,
                                      !.exit = 101,
                                      !.stderr = "Failed to load config"]
                /\ UNCHANGED << config, auth_state >>
           ELSE /\ pc' = "reset_auth"
                /\ config' = r.policy
                /\ auth_state' = AuthStateNew(r.policy, current_user)
                /\ obs' = [obs EXCEPT !.loads = @ + 1, !.seen = @ \cup {r.policy}]
    /\ UNCHANGED << now, cache, policyFile, resetBy, uid, euid, args, environ,
                    current_user, groups, creds >>

\* ResetAuth without its exit(0): after the record is cleared main goes on.
ResetAuthNoExit ==
    /\ pc = "reset_auth"
    /\ IF args.reset_auth
       THEN /\ cache' = Invalidate(cache, auth_state.username)
            /\ resetBy' = resetBy
            /\ pc' = IF args.login THEN "login" ELSE "command"
            /\ obs' = [obs EXCEPT !.cacheOps = @ \cup {<< "invalidate", auth_state.username >>}]
       ELSE /\ pc' = IF args.login THEN "login" ELSE "command"
            /\ UNCHANGED << cache, resetBy, obs >>
    /\ UNCHANGED << now, policyFile, uid, euid, args, environ, current_user,
                    groups, config, auth_state, creds >>

\* ResetAuth clearing the whole cache instead of the invoker's record.
ResetAuthClearsAll ==
    /\ pc = "reset_auth"
    /\ IF args.reset_auth
       THEN /\ cache' = [n \in Names |-> NoRecord]
            /\ resetBy' = IF IsValid(cache, auth_state.username, auth_state.timeout, now)
                          THEN resetBy \cup {auth_state.username}
                          ELSE resetBy
            /\ pc' = "exited"
            /\ obs' = [obs EXCEPT !.cacheOps = @ \cup {<< "invalidate", auth_state.username >>},
                                  !.exit = 0]
       ELSE /\ pc' = IF args.login THEN "login" ELSE "command"
            /\ UNCHANGED << cache, resetBy, obs >>
    /\ UNCHANGED << now, policyFile, uid, euid, args, environ, current_user,
                    groups, config, auth_state, creds >>

\* main.rs 109-115: -K clears the invoker's record and exits 0.
ResetAuth ==
    /\ pc = "reset_auth"
    /\ IF args.reset_auth
       THEN /\ cache' = Invalidate(cache, auth_state.username)
            /\ resetBy' = IF IsValid(cache, auth_state.username, auth_state.timeout, now)
                          THEN resetBy \cup {auth_state.username}
                          ELSE resetBy
            /\ pc' = "exited"
            /\ obs' = [obs EXCEPT !.cacheOps = @ \cup {<< "invalidate", auth_state.username >>},
                                  !.exit = 0]
       ELSE /\ pc' = IF args.login THEN "login" ELSE "command"
            /\ UNCHANGED << cache, resetBy, obs >>
    /\ UNCHANGED << now, policyFile, uid, euid, args, environ, current_user,
                    groups, config, auth_state, creds >>

\* LoginSwitch with the result of switch_user ignored.
LoginSwitchUnchecked ==
    /\ pc = "login"
    /\ \E fault \in Faults :
         LET r == switch_user(creds, args.user, fault)
         IN  /\ creds' = r.creds
             /\ pc' = "login_lookup"
             /\ obs' = [obs EXCEPT !.syscalls = r.syscalls,
                                   !.switched = IF r.ok THEN "ok" ELSE "err"]
    /\ UNCHANGED << now, cache, policyFile, resetBy, uid, euid, args, environ,
                    current_user, groups, config, auth_state >>

\* main.rs 117-123: -i switches to the target at once; a failed switch is fatal.
LoginSwitch ==
    /\ pc = "login"
    /\ \E fault \in Faults :
         LET r == switch_user(creds, args.user, fault)
         IN  /\ creds' = r.creds
             /\ IF r.ok
                THEN /\ pc' = "login_lookup"
                     /\ obs' = [obs EXCEPT !.syscalls = r.syscalls, !.switched = "ok"]
                ELSE /\ pc' = "exited"
                     /\ obs' = [obs EXCEPT !.syscalls = r.syscalls, !.switched = "err",
                                           !.exit = 1]
    /\ UNCHANGED << now, cache, policyFile, resetBy, uid, euid, args, environ,
                    current_user, groups, config, auth_state >>

\* main.rs 125-136: the target's entry is looked up; none, or an error, is fatal.
LoginLookup ==
    /\ pc = "login_lookup"
    /\ \E found \in {"some", "none", "err"} :
         /\ found = "some" => Known(args.user)
         /\ IF found = "some"
            THEN pc' = "login_exec" /\ obs' = [obs EXCEPT !.lookup = found]
            ELSE pc' = "exited" /\ obs' = [obs EXCEPT !.lookup = found, !.exit = 1]
    /\ UNCHANGED << now, cache, policyFile, resetBy, uid, euid, args, environ,
                    current_user, groups, config, auth_state, creds >>

\* LoginEnv where a variable already in the environment keeps its value.
LoginEnvInheritedWins(inherited, entry, target) ==
    inherited @@ ("HOME" :> entry.dir) @@ ("USER" :> target) @@ ("LOGNAME" :> target)
        @@ ("SHELL" :> entry.shell) @@ ("PS1" :> Prompt)

\* main.rs 141-148: the shell's environment: the one elev runs with, with five
\* variables set (Command::env adds to the inherited environment).
LoginEnv(inherited, entry, target) ==
    ("HOME" :> entry.dir) @@ ("USER" :> target) @@ ("LOGNAME" :> target)
        @@ ("SHELL" :> entry.shell) @@ ("PS1" :> Prompt) @@ inherited

\* LoginExec where a returning exec ends main with status 0.
LoginExecReturnsZero ==
    /\ pc = "login_exec"
    /\ LET entry == Passwd[args.user]
           image == [prog |-> entry.shell, argv |-> << "-l" >>,
                     env |-> LoginEnv(environ, entry, args.user),
                     cwd |-> entry.dir, euid |-> creds.euid]
       IN  \E replaced \in BOOLEAN :
             IF replaced
             THEN /\ pc' = "replaced"
                  /\ obs' = [obs EXCEPT !.execs = @ + 1, !.image = image]
             ELSE /\ pc' = "exited"
                  /\ obs' = [obs EXCEPT !.execs = @ + 1, !.image = image, !.exit = 0]
    /\ UNCHANGED << now, cache, policyFile, resetBy, uid, euid, args, environ,
                    current_user, groups, config, auth_state, creds >>

\* main.rs 137-153: the target's shell is exec'd as a login shell; if exec
\* returns, that is an error and the status is 1.
LoginExec ==
    /\ pc = "login_exec"
    /\ LET entry == Passwd[args.user]
           image == [prog |-> entry.shell, argv |-> << "-l" >>,
                     env |-> LoginEnv(environ, entry, args.user),
                     cwd |-> entry.dir, euid |-> creds.euid]
       IN  \E replaced \in BOOLEAN :
             IF replaced
             THEN /\ pc' = "replaced"
                  /\ obs' = [obs EXCEPT !.execs = @ + 1, !.image = image]
             ELSE /\ pc' = "exited"
                  /\ obs' = [obs EXCEPT !.execs = @ + 1, !.image = image, !.exit = 1]
    /\ UNCHANGED << now, cache, policyFile, resetBy, uid, euid, args, environ,
                    current_user, groups, config, auth_state, creds >>

\* main.rs 156-174: the command is collected and the policy loaded again; a
\* failure exits with status 1.
LoadConfigAgain ==
    /\ pc = "command"
    /\ LET r == ConfigLoad(policyFile)
       IN  IF ~r.ok
           THEN /\ pc' = "exited"
                /\ obs' = [obs EXCEPT !.loads = @ + 1, !.loadFailed = TRUE,
                                      !.exit = 1]
                /\ UNCHANGED << config, auth_state >>
           ELSE /\ pc' = "check_timeout"
                /\ config' = r.policy
                /\ auth_state' = AuthStateNew(r.policy, current_user)
                /\ obs' = [obs EXCEPT !.loads = @ + 1, !.seen = @ \cup {r.policy}]
    /\ UNCHANGED << now, cache, policyFile, resetBy, uid, euid, args, environ,
                    current_user, groups, creds >>

\* main.rs 176-178: auth_state.check_timeout(): is the invoker's record valid?
CheckTimeout ==
    /\ pc = "check_timeout"
    /\ LET valid == IsValid(cache, auth_state.username, auth_state.timeout, now)
       IN  /\ pc' = IF valid THEN "run" ELSE "verify"
           /\ obs' = [obs EXCEPT !.cacheOps = @ \cup {<< "read", auth_state.username >>},
                                 !.cacheValid = valid]
    /\ UNCHANGED << now, cache, policyFile, resetBy, uid, euid, args, environ,
                    current_user, groups, config, auth_state, creds >>

\* Authenticator's retry ceiling (spec.md 4.3).
MaxAttempts == 3

\* One prompt of auth::verify_password(user, auth_state, ...): the password
\* typed is compared with the one the system holds for user; a match records
\* the success for auth_state's identity; MaxAttempts misses end it
\* (spec.md 4.3).  Gives who was asked, the cache, whether it is over and how.
verify_password(user, st, typed, tries, c, t) ==
    IF typed = Shadow(user)
    THEN [asked |-> user, cache |-> RecordSuccess(c, st.username, t),
          done |-> TRUE, ok |-> TRUE]
    ELSE [asked |-> user, cache |-> c, done |-> tries + 1 >= MaxAttempts, ok |-> FALSE]

\* What may be typed at the prompt: the invoker's password, the target's, or
\* neither.
Typed == { Shadow(current_user), Shadow(args.user), "wrong" }

\* VerifyPassword with the target's name handed to verify_password.
VerifyPasswordOfTarget ==
    /\ pc = "verify"
    /\ \E typed \in Typed :
         LET r == verify_password(args.user, auth_state, typed, obs.prompts, cache, now)
             o == [obs EXCEPT !.prompts = @ + 1,
                              !.challenged = @ \cup {r.asked},
                              !.cacheOps = IF r.ok THEN @ \cup {<< "write", auth_state.username >>}
                                           ELSE @,
                              !.authenticated = r.ok]
         IN  /\ cache' = r.cache
             /\ IF ~r.done
                THEN pc' = "verify" /\ obs' = o
                ELSE IF r.ok
                THEN pc' = "run" /\ obs' = o
                ELSE pc' = "exited" /\ obs' = [o EXCEPT !.exit = 1]
    /\ UNCHANGED << now, policyFile, resetBy, uid, euid, args, environ,
                    current_user, groups, config, auth_state, creds >>

\* VerifyPassword going on to run_command when the challenge has failed.
VerifyPasswordFailsOpen ==
    /\ pc = "verify"
    /\ \E typed \in Typed :
         LET r == verify_password(current_user, auth_state, typed, obs.prompts, cache, now)
             o == [obs EXCEPT !.prompts = @ + 1,
                              !.challenged = @ \cup {r.asked},
                              !.cacheOps = IF r.ok THEN @ \cup {<< "write", auth_state.username >>}
                                           ELSE @,
                              !.authenticated = r.ok]
         IN  /\ cache' = r.cache
             /\ pc' = IF r.done THEN "run" ELSE "verify"
             /\ obs' = o
    /\ UNCHANGED << now, policyFile, resetBy, uid, euid, args, environ,
                    current_user, groups, config, auth_state, creds >>

\* main.rs 179-182: verify_password(&current_user, &mut auth_state, ...); a
\* failure exits with status 1.
VerifyPassword ==
    /\ pc = "verify"
    /\ \E typed \in Typed :
         LET r == verify_password(current_user, auth_state, typed, obs.prompts, cache, now)
             o == [obs EXCEPT !.prompts = @ + 1,
                              !.challenged = @ \cup {r.asked},
                              !.cacheOps = IF r.ok THEN @ \cup {<< "write", auth_state.username >>}
                                           ELSE @,
                              !.authenticated = r.ok]
         IN  /\ cache' = r.cache
             /\ IF ~r.done
                THEN pc' = "verify" /\ obs' = o
                ELSE IF r.ok
                THEN pc' = "run" /\ obs' = o
                ELSE pc' = "exited" /\ obs' = [o EXCEPT !.exit = 1]
    /\ UNCHANGED << now, policyFile, resetBy, uid, euid, args, environ,
                    current_user, groups, config, auth_state, creds >>

\* main.rs 187-202: what the user is told for each kind of error.
ErrMessage(kind) ==
    CASE kind = "PermissionDenied" -> "elev: permission denied"
      [] kind = "NotFound"         -> "elev: command not found"
      [] kind = "TimedOut"         -> "elev: authentication timed out"
      [] OTHER                     -> "elev: error running command"

\* main.rs 185-206: run_command(...); any error it returns is reported and the
\* status is 1.
RunCommand ==
    /\ pc = "run"
    /\ \E fault \in Faults, outcome \in ExecOutcomes :
         LET r == run_command(creds, args.command, args.user, config,
                              auth_state.username, groups, fault, outcome)
             o == [obs EXCEPT !.evaluated = TRUE, !.syscalls = r.syscalls,
                              !.switched = r.switched, !.execs = r.execs,
                              !.image = r.image]
         IN  /\ creds' = r.creds
             /\ IF r.result = "replaced"
                THEN pc' = "replaced" /\ obs' = o
                ELSE pc' = "exited"
                     /\ obs' = [o EXCEPT !.exit = 1, !.stderr = ErrMessage(r.result)]
    /\ UNCHANGED << now, cache, policyFile, resetBy, uid, euid, args, environ,
                    current_user, groups, config, auth_state >>

Next ==
    \/ Tick
    \/ PolicyFileWrite
    \/ Start
    \/ Reap
    \/ CheckUid
    \/ CheckEuid
    \/ ParseArgs
    \/ LoadConfig
    \/ ResetAuth
    \/ LoginSwitch
    \/ LoginLookup
    \/ LoginExec
    \/ LoadConfigAgain
    \/ CheckTimeout
    \/ VerifyPassword
    \/ RunCommand

Spec == Init /\ [][Next]_vars

(* ----------------------- concurrent invocations ----------------------- *)

\* The positions of main() whose next step reads or writes the cache (main.rs
\* 111, 176, 179): a peer's write is seen by this invocation only if it falls
\* before such a step.
CachePoints == {"reset_auth", "check_timeout", "verify"}

\* Another elev process, run by the non-root user u while this one runs,
\* reaches auth_state.invalidate() (main.rs 111): its effect on the cache.
PeerInvalidate ==
    /\ pc \in CachePoints
    /\ \E u \in Uids \ {0} :
         /\ cache[real_username(u)] # NoRecord
         /\ cache' = Invalidate(cache, real_username(u))
    /\ UNCHANGED << now, policyFile, resetBy, pc, uid, euid, args, environ,
                    current_user, groups, config, auth_state, creds, obs >>

\* Another elev process, run by the non-root user u while this one runs, has
\* its challenge answered rightly (main.rs 179): its effect on the cache.
PeerRecordSuccess ==
    /\ pc \in CachePoints
    /\ \E u \in Uids \ {0} :
         /\ cache[real_username(u)] # now
         /\ cache' = RecordSuccess(cache, real_username(u), now)
    /\ UNCHANGED << now, policyFile, resetBy, pc, uid, euid, args, environ,
                    current_user, groups, config, auth_state, creds, obs >>

NextConcurrent ==
    \/ Next
    \/ PeerInvalidate
    \/ PeerRecordSuccess

\* The invocation followed step by step, with other invocations' cache
\* writes falling between any two of its steps.
SpecConcurrent == Init /\ [][NextConcurrent]_vars

(* ------------------------- what the claims read ----------------------- *)

\* An invocation is under way or has just ended.
Invoked == pc # "idle"

\* The invoker: the name of the real uid.
Invoker == real_username(uid)

\* The policy was loaded.
Loaded == obs.seen # {}

\* The decision of the loaded policy for (invoker, target).
Decision == Evaluate(config, Invoker, get_user_groups(Invoker), args.user)

\* The loaded policy grants the target and asks for a password.
PasswordRequired == Loaded /\ Decision.allowed /\ Decision.requires_password

\* switch_user was called.
SwitchCalled == obs.switched # "none"

\* The identity the target's record gives a process.
TargetCreds ==
    [ruid |-> Passwd[args.user].uid, euid |-> Passwd[args.user].uid,
     egid |-> Passwd[args.user].gid, gids |-> Passwd[args.user].gids]

\* The invoker's record was within the grace window when elev started.
FreshAtStart ==
    /\ obs.record0 # NoRecord
    /\ obs.record0 <= obs.t0
    /\ obs.t0 - obs.record0 < config.timeout

(* -------------------------------- claims ------------------------------ *)

\* C1: when no rule of the loaded policy matches (invoker, target), an
\* invocation asking for a login shell (-i) or for a command never calls
\* switch_user, never execs, and ends by exiting with a failure status.
C1_NoRuleNoElevation ==
    (Invoked /\ ~args.reset_auth /\ Loaded /\ ~Decision.allowed) =>
        /\ ~SwitchCalled
        /\ obs.syscalls = << >>
        /\ obs.execs = 0
        /\ (pc \in Terminal => pc = "exited" /\ obs.exit # 0)

\* C2: when the decision requires a password, switch_user and exec happen
\* only after check_timeout found the cache valid or verify_password
\* succeeded in this invocation, with -i as well as with a command.
C2_AuthBeforeSwitch ==
    (Invoked /\ PasswordRequired /\ (SwitchCalled \/ obs.execs > 0)) =>
        (obs.cacheValid \/ obs.authenticated)

\* C3: an invocation by the real uid 0 loads and evaluates no policy, touches
\* no cache record, prompts for nothing, switches no identity and execs
\* nothing, whatever its flags; it ends with exit status 1.
C3_RootRefused ==
    (Invoked /\ uid = 0) =>
        /\ pc \in {"check_uid", "exited"}
        /\ obs.loads = 0
        /\ ~obs.evaluated
        /\ obs.cacheOps = {}
        /\ cache[Invoker] = obs.record0
        /\ obs.prompts = 0
        /\ ~SwitchCalled
        /\ obs.syscalls = << >>
        /\ obs.execs = 0
        /\ (pc = "exited" => obs.exit = 1)

\* C3's case: root ran elev -K -i -u alice COMMAND and was refused.
C3_Witness ==
    /\ uid = 0
    /\ pc = "exited"
    /\ obs.exit = 1
    /\ args.reset_auth /\ args.login /\ args.user = "alice" /\ args.command # << >>

\* C4: exec is attempted only after switch_user succeeded, and a successful
\* switch applied all three changes; when switch_user fails, at whatever
\* step, the invocation exits with status 1 without any exec.
C4_ExecOnlyAfterSwitch ==
    Invoked =>
        /\ (obs.execs > 0 => obs.switched = "ok")
        /\ (obs.switched = "ok" => Len(obs.syscalls) = 3 /\ creds = TargetCreds)
        /\ (obs.switched = "err" => pc = "exited" /\ obs.exit = 1 /\ obs.execs = 0)

\* C4's case: with -i the set-user-id step failed after both group changes
\* were applied, and elev exited.
C4_Witness ==
    /\ args.login
    /\ obs.switched = "err"
    /\ obs.syscalls = << "setgroups", "setgid" >>
    /\ creds.gids = Passwd[args.user].gids
    /\ creds.euid = 0
    /\ pc = "exited"

\* C5: the identity changes applied are always a prefix of setgroups, setgid,
\* setuid, the groups being exactly the target's; the user id is not changed
\* before both group changes; after a successful switch the process keeps the
\* target's identity to the end of the invocation.
C5_SwitchOrder ==
    Invoked =>
        /\ \E n \in 0..3 : obs.syscalls = SubSeq(<< "setgroups", "setgid", "setuid" >>, 1, n)
        /\ (Len(obs.syscalls) >= 1 => creds.gids = Passwd[args.user].gids)
        /\ (Len(obs.syscalls) >= 2 => creds.egid = Passwd[args.user].gid)
        /\ (creds.ruid # uid =>
                /\ creds.gids = Passwd[args.user].gids
                /\ creds.egid = Passwd[args.user].gid)
        /\ (obs.switched = "ok" => creds = TargetCreds)

\* C5's case: bob's elev -i -u alice has switched and stands at a later step,
\* with alice's identity and no privilege left.
C5_Witness ==
    /\ uid = 1001
    /\ args.user = "alice"
    /\ pc = "login_exec"
    /\ obs.switched = "ok"
    /\ obs.syscalls = << "setgroups", "setgid", "setuid" >>
    /\ creds.euid = 1000

\* The minimal environment of the target: with a prompt for a login shell.
MinimalEnv ==
    IF args.login
    THEN FreshEnv(Passwd[args.user], args.user) @@ ("PS1" :> Prompt)
    ELSE FreshEnv(Passwd[args.user], args.user)

\* C6: at exec the environment is exactly HOME, USER, LOGNAME, SHELL and
\* PATH (and PS1 for a login shell), built from the target alone: nothing of
\* the invoker's environment is in it.
C6_MinimalEnvironment ==
    (Invoked /\ obs.execs > 0) => obs.image.env = MinimalEnv

\* C7: only the invoker is ever asked for a password, whatever -u names, and
\* every cache record read, written or invalidated is the invoker's.
C7_InvokerAuthenticated ==
    Invoked =>
        /\ obs.challenged \subseteq {Invoker}
        /\ \A op \in obs.cacheOps : op[2] = Invoker
        /\ (obs.authenticated => cache[Invoker] # NoRecord)

\* C7's case: bob asked for root, was asked for bob's password and gave it.
C7_Witness ==
    /\ uid = 1001
    /\ args.user = "root"
    /\ obs.challenged = {"bob"}
    /\ obs.authenticated
    /\ << "write", "bob" >> \in obs.cacheOps

\* C8: under a policy that requires a password, an invocation that goes on
\* to the privilege switch has, when the invoker's record was absent or
\* older than timeout, prompted, been given the right password and written
\* the record; and has not prompted when the record was younger than timeout.
C8_CacheScenario ==
    (Invoked /\ PasswordRequired /\ SwitchCalled) =>
        /\ (~FreshAtStart =>
                /\ obs.prompts > 0
                /\ obs.authenticated
                /\ << "write", Invoker >> \in obs.cacheOps
                /\ cache[Invoker] # NoRecord)
        /\ (FreshAtStart => obs.prompts = 0)

\* C9: the invocation that follows a -K of a fresh record, by the same
\* invoker and under a policy that requires a password, prompts before it
\* switches identity.
C9_PromptAfterReset ==
    (Invoked /\ obs.afterReset /\ PasswordRequired /\ SwitchCalled) =>
        obs.prompts > 0

\* C10 as stated: every -K invocation by a non-root invoker ends with the
\* record gone and exit status 0, with no prompt, switch or exec.
C10_ResetAlwaysExitsZero ==
    (pc \in Terminal /\ args.reset_auth /\ uid # 0) =>
        /\ pc = "exited"
        /\ obs.exit = 0
        /\ cache[Invoker] = NoRecord
        /\ obs.prompts = 0
        /\ ~SwitchCalled
        /\ obs.execs = 0

\* C10, amended: no -K invocation prompts, switches identity or execs, also
\* with -i, -u or a command; run setuid-root by a non-root invoker with a
\* policy file that loads, it invalidates the invoker's record and exits 0,
\* whether or not a record existed.
C10_Reset ==
    (Invoked /\ args.reset_auth) =>
        /\ obs.prompts = 0
        /\ ~SwitchCalled
        /\ obs.syscalls = << >>
        /\ obs.execs = 0
        /\ pc # "replaced"
        /\ (pc = "exited" /\ uid # 0 /\ euid = 0 /\ Loaded =>
                /\ obs.exit = 0
                /\ obs.cacheOps = {<< "invalidate", Invoker >>}
                /\ cache[Invoker] = NoRecord)

\* C10's case: bob, holding a record, ran elev -K -i -u alice COMMAND.
C10_Witness ==
    /\ uid = 1001
    /\ args.reset_auth /\ args.login /\ args.user = "alice" /\ args.command # << >>
    /\ obs.record0 # NoRecord
    /\ pc = "exited"
    /\ obs.exit = 0
    /\ cache["bob"] = NoRecord

\* The loaded policy grants the target without asking for a password.
NoPasswordRequired == Loaded /\ Decision.allowed /\ ~Decision.requires_password

\* C11: under a rule that grants the target without a password no password
\* prompt is shown, whatever the state of the invoker's cache record, and
\* what is exec'd runs under the target's uid.
C11_NoPasswordNoPrompt ==
    (Invoked /\ NoPasswordRequired) =>
        /\ obs.prompts = 0
        /\ obs.challenged = {}
        /\ (obs.execs > 0 => obs.image.euid = Passwd[args.user].uid)

\* The policy was evaluated and grants nothing for (invoker, target).
Denied == obs.evaluated /\ ~Decision.allowed

\* The password challenge was given up after its attempts.
ChallengeFailed == pc = "exited" /\ obs.prompts > 0 /\ ~obs.authenticated

C13_PolicyLoadedOnce ==
    Invoked =>
        /\ obs.loads <= 1
        /\ Cardinality(obs.seen) <= 1

\* C14: whatever other invocations write to the cache in between, a step of
\* the invocation of X changes no record but X's: every other identity's
\* record is after the step what it was before.
C14_OwnRecordOnly ==
    [][ (pc' # pc \/ obs' # obs) =>
            \A n \in Names : cache'[n] # cache[n] => (pc # "idle" /\ n = Invoker) ]_vars

\* C14's case: bob's invocation has written bob's record while alice holds a
\* record that another invocation wrote.
C14_Witness ==
    /\ uid = 1001
    /\ << "write", "bob" >> \in obs.cacheOps
    /\ cache["bob"] # NoRecord
    /\ cache["alice"] # NoRecord
    /\ cache["alice"] # cache["bob"]

\* What the user is told when no policy rule permits the request (main.rs 190).
DeniedMessage == ErrMessage("PermissionDenied")

\* C15: an invocation that fails because the password was wrong shows the
\* user the same message as one that fails because no rule permits the
\* request, so the message does not tell the two causes apart.
C15_SameFailureMessage ==
    /\ (ChallengeFailed => obs.stderr = DeniedMessage)
    /\ (pc = "exited" /\ Denied => obs.stderr = DeniedMessage)

\* The invoker's cache was read and found not valid, and no challenge has
\* been answered rightly (main.rs 176-179).
Unauthenticated ==
    /\ ~args.login
    /\ << "read", Invoker >> \in obs.cacheOps
    /\ ~obs.cacheValid
    /\ ~obs.authenticated

\* C16: in command mode, with the cache not valid and the challenge failed,
\* the invocation ends with status 1 and run_command is never called; the
\* only retrying is the challenge's own, at most MaxAttempts prompts.
C16_FailedChallengeTerminal ==
    (Invoked /\ Unauthenticated) =>
        /\ pc \in {"verify", "exited"}
        /\ (pc = "verify" => obs.prompts < MaxAttempts)
        /\ (pc = "exited" => obs.prompts = MaxAttempts /\ obs.exit = 1)
        /\ ~obs.evaluated
        /\ ~SwitchCalled
        /\ obs.execs = 0

\* C16's case: the challenge was failed MaxAttempts times and the invocation
\* has ended.
C16_Witness ==
    /\ Unauthenticated
    /\ pc = "exited"
    /\ obs.prompts = MaxAttempts
    /\ obs.exit = 1

\* The cache has been touched, a prompt shown, a switch attempted or a
\* program exec'd.
Acted == obs.cacheOps # {} \/ obs.prompts > 0 \/ SwitchCalled \/ obs.execs > 0

\* C17: a failed policy load ends the invocation with a non-zero status on
\* every path (-K, -i, command), and before any cache record is read, written
\* or invalidated, any prompt, any privilege switch and any exec: nothing of
\* the kind happens unless a load has succeeded and none has failed.
C17_LoadFailureFatal ==
    Invoked =>
        /\ (obs.loadFailed =>
                /\ pc = "exited"
                /\ obs.exit \notin {0, NoExit}
                /\ ~Acted)
        /\ (Acted => Loaded /\ ~obs.loadFailed)

\* C17's case: a -K whose policy load failed has ended, the invoker's record
\* still in the cache.
C17_Witness ==
    /\ args.reset_auth
    /\ obs.loadFailed
    /\ pc = "exited"
    /\ obs.exit = 101
    /\ cache[Invoker] # NoRecord

\* C18: with -i, a target name that does not resolve to an entry (lookup gives
\* none, or an error) ends the invocation with status 1 and no shell exec'd;
\* and every login shell exec'd is the target's shell with the argument -l,
\* working directory and HOME the target's home directory, USER and LOGNAME
\* the target's name.
C18_LoginShell ==
    (Invoked /\ args.login) =>
        /\ (obs.lookup \in {"none", "err"} =>
                pc = "exited" /\ obs.exit = 1 /\ obs.execs = 0)
        /\ (obs.execs > 0 =>
                /\ obs.lookup = "some"
                /\ obs.image.prog = Passwd[args.user].shell
                /\ obs.image.argv = << "-l" >>
                /\ obs.image.cwd = Passwd[args.user].dir
                /\ obs.image.env["HOME"] = Passwd[args.user].dir
                /\ obs.image.env["USER"] = args.user
                /\ obs.image.env["LOGNAME"] = args.user)

\* C18's case: a login shell was exec'd by an invocation whose own
\* environment gave HOME another value.
C18_Witness ==
    /\ args.login
    /\ pc = "replaced"
    /\ obs.execs = 1
    /\ "HOME" \in DOMAIN environ
    /\ environ["HOME"] # Passwd[args.user].dir

\* C19: an invocation whose effective uid is not 0 ends with status 1 before
\* the policy is loaded, before any cache record is read or invalidated and
\* before any privilege switch or exec, whatever flags it was given.
C19_NotSetuidRefused ==
    (Invoked /\ euid # 0) =>
        /\ pc \in {"check_uid", "check_euid", "exited"}
        /\ (pc = "exited" => obs.exit = 1)
        /\ obs.loads = 0
        /\ ~Loaded
        /\ ~Acted

\* C19's case: an elev that is not setuid-root, run by a non-root user with
\* -K, has ended, the invoker's record still in the cache.
C19_Witness ==
    /\ euid # 0
    /\ uid # 0
    /\ args.reset_auth
    /\ pc = "exited"
    /\ obs.exit = 1
    /\ cache[Invoker] # NoRecord

====
